---- MODULE Spec2Model ----
(***************************************************************************)
(* Feature-derivation pipeline of src/procs/Procs.py.                      *)
(*                                                                         *)
(* A pandas data frame is modelled by the sequence of its column names and *)
(* the set of its Date values; the two metadata lists are sequences of     *)
(* names.  Every proc_* function is an operator from the state at the call *)
(* (table and lists) to the state when it returns or raises; an action     *)
(* Call* is one call of that function by the pipeline's caller, who        *)
(* threads the returned table into the next call.  The quantile labelling  *)
(* of proc_add_direction works on cell values and is modelled on the value *)
(* of the <column>-pct series.                                             *)
(***************************************************************************)
EXTENDS Integers, Sequences, FiniteSets, TLC

VARIABLES
    df_cols,    \* column names of the caller's table, in frame order
    df_dates,   \* Date values of the caller's table
    cont_vars,  \* the continuous metadata list
    cat_vars,   \* the categorical metadata list
    hist,       \* one record per call made so far (pre-state, arguments, outcome)
    pct,        \* cell values of the <column>-pct series fed to the classifier
    direction,  \* cell values of the <column>-direction column
    values,     \* cell values of the table's numeric columns, by column name
    volatility, \* cell values of the <column>-volatility column
    norm,       \* the frame proc_min_max_normalize returned: column order and cells
    ov,         \* an OnlineVariance estimator a caller feeds value by value
    fed         \* the values that caller has included so far

vars ==
    <<df_cols, df_dates, cont_vars, cat_vars, hist, pct, direction,
      values, volatility, norm, ov, fed>>

(***************************************************************************)
(* Bounds of the model.                                                    *)
(***************************************************************************)
MaxCalls == 2        \* calls in one pipeline run (Spec)
MaxMergeCalls == 1   \* calls in one run of the merge specification
MaxDate == 3         \* trading dates 1..MaxDate
MaxDirCalls == 1     \* classifier calls in one run of the classifier specification
MaxRows == 14        \* non-missing rows of the pct series
MaxDiffCalls == 2    \* calls in one run of the composite-difference specification
MaxFed == 5          \* values included in one run of the estimator specification
MaxValue == 5        \* the included values are 0..MaxValue
MaxVolCalls == 1     \* calls in one run of the volatility specification
MaxVolRows == 4      \* rows of the price column of the volatility specification
MaxWindow == 3       \* window lengths 0..MaxWindow
MaxNormCalls == 1    \* calls in one run of the normalization specification
MaxNormRows == 3     \* rows of the table of the normalization specification
MaxOrderCalls == 2   \* calls in one run of the composition specification

Dates == 1..MaxDate

(***************************************************************************)
(* Generic helpers.                                                        *)
(***************************************************************************)
Range(s) == {s[i] : i \in DOMAIN s}

IsPrefix(s, t) == Len(s) <= Len(t) /\ SubSeq(t, 1, Len(s)) = s

Count(x, s) == Cardinality({i \in DOMAIN s : s[i] = x})

Suffix(s, t) == SubSeq(t, Len(s) + 1, Len(t))

RECURSIVE Filter(_, _)
Filter(s, keep) ==
    IF s = <<>> THEN <<>>
    ELSE (IF Head(s) \in keep THEN <<Head(s)>> ELSE <<>>) \o Filter(Tail(s), keep)

(***************************************************************************)
(* pandas and Python primitives used by the transforms.                    *)
(***************************************************************************)
\* str.upper() on the moving-average kinds the model passes in
upper(s) ==
    CASE s = "sma" -> "SMA"
      [] s = "ema" -> "EMA"
      [] s = "wma" -> "WMA"
      [] s = "xyz" -> "XYZ"
      [] OTHER -> s

\* df[name] = ... : overwrites the column in place, or appends a new one
df_setitem(cols, name) ==
    IF name \in Range(cols) THEN cols ELSE Append(cols, name)

\* df.drop(columns=features), all features present
df_drop(cols, features) == Filter(cols, Range(cols) \ features)

\* df.rename(columns={old_name: new_name}): a missing old_name is ignored
rename_column(cols, old_name, new_name) ==
    [i \in DOMAIN cols |-> IF cols[i] = old_name THEN new_name ELSE cols[i]]

\* pd.to_datetime on the cache's date strings "d1", "d2", ...
to_datetime(s) == CHOOSE d \in Dates : "d" \o ToString(d) = s

DateStrings == {"d" \o ToString(d) : d \in Dates}

\* a mutant of merge_dates: a right join keeps every row of the indicator table
merge_dates_right(left_dates, right_dates) == right_dates

\* a mutant of merge_dates: a left join keeps every row of the price table
merge_dates_left(left_dates, right_dates) == left_dates

\* pd.merge(df, ind, on="Date"), rows: inner join on the key
merge_dates(left_dates, right_dates) ==
    {d \in left_dates : \E r \in right_dates : r = d}

\* pd.merge(df, ind, on="Date"), columns: left then right without the key;
\* a non-key name held by both sides gets the suffixes _x and _y
merge_cols(left, right) ==
    LET both == (Range(left) \cap Range(right)) \ {"Date"}
        r == Filter(right, Range(right) \ {"Date"})
    IN  [i \in DOMAIN left |->
            IF left[i] \in both THEN left[i] \o "_x" ELSE left[i]]
        \o
        [i \in DOMAIN r |->
            IF r[i] \in both THEN r[i] \o "_y" ELSE r[i]]

(***************************************************************************)
(* The indicator cache (src.utils.TechInd, outside this file): a table     *)
(* with a lowercase "date" column and the indicator's columns.             *)
(***************************************************************************)
IndicatorColumns(indicator) ==
    CASE indicator = "ADX" -> <<"ADX">>
      [] indicator = "OBV" -> <<"OBV">>
      [] indicator = "MOM" -> <<"MOM">>
      [] indicator = "RSI" -> <<"RSI">>
      [] indicator = "MACD" -> <<"MACD", "MACD_Signal", "MACD_Hist">>
      [] indicator = "BBANDS" ->
            <<"Real Upper Band", "Real Middle Band", "Real Lower Band">>
      [] indicator = "SMA" -> <<"SMA">>
      [] indicator = "EMA" -> <<"EMA">>
      [] indicator = "WMA" -> <<"WMA">>

\* raw is the set of date strings the cache holds for the request
get_cached_tech_indicator(indicator, raw) ==
    [cols |-> <<"date">> \o IndicatorColumns(indicator), dates |-> raw]

\* the response of a cache that cannot supply the table: the fetch raises
Unavailable == {"unavailable"}

fetch_fails(raw) == raw = Unavailable

\* convert_date(df, "Date") and the to_datetime of __load_moving_avg
convert_date(tbl) == [tbl EXCEPT !.dates = {to_datetime(s) : s \in @}]

(***************************************************************************)
(* State of one call: the caller's table and lists, the requests the call  *)
(* has sent to the indicator cache (fetched), and whether the call is      *)
(* still running normally (ok) or has raised.                              *)
(***************************************************************************)
\* t.get_cached_tech_indicator(indicator=..., stock=stock) is called
fetch(st, request) == [st EXCEPT !.fetched = Append(@, request)]

Raise(st) == [st EXCEPT !.ok = FALSE]

HasCol(st, name) == name \in Range(st.cols)


(***************************************************************************)
(* Transforms that work on the table in place (or on a copy of it).        *)
(* A missing column raises KeyError at the statement that reads it; what   *)
(* was appended or assigned before that statement stays.                   *)
(***************************************************************************)
OHLV == {"Open", "High", "Low", "Volume"}

\* a mutant of proc_close_only: "Close" is dropped with the other price columns
proc_close_only_drops_close(st) ==
    LET s1 == [st EXCEPT !.cont = Append(@, "Close")]
    IN  IF OHLV \subseteq Range(s1.cols)
        THEN [s1 EXCEPT !.cols = df_drop(@, OHLV \cup {"Close"})]
        ELSE Raise(s1)

proc_close_only(st) ==
    LET s1 == [st EXCEPT !.cont = Append(@, "Close")]
    IN  IF OHLV \subseteq Range(s1.cols)
        THEN [s1 EXCEPT !.cols = df_drop(@, OHLV)]
        ELSE Raise(s1)

\* column_names[start:end] for the date-part columns Year .. Is_year_end
DatePartSlice(cols) ==
    LET start == CHOOSE i \in DOMAIN cols : cols[i] = "Year" /\ \A j \in 1..(i - 1) : cols[j] # "Year"
        end == CHOOSE i \in DOMAIN cols :
                    cols[i] = "Is_year_end" /\ \A j \in 1..(i - 1) : cols[j] # "Is_year_end"
    IN  SubSeq(cols, start, end - 1)

\* returns nothing: the caller keeps its table
proc_add_datepart(st) ==
    LET s1 == [st EXCEPT !.cont = Append(@, "Elapsed")]
    IN  IF ~HasCol(s1, "Year") \/ ~HasCol(s1, "Is_year_end")
        THEN Raise(s1)
        ELSE [s1 EXCEPT !.cat = @ \o DatePartSlice(s1.cols)]

proc_add_next_y(st, y_column) ==
    IF ~HasCol(st, y_column) THEN Raise(st)
    ELSE [st EXCEPT !.cols = df_setitem(@, "y"), !.cont = Append(@, "y")]

RECURSIVE previous_values_loop(_, _, _, _)
previous_values_loop(st, column_name, n, number) ==
    IF n > number THEN st
    ELSE IF ~HasCol(st, column_name) THEN Raise(st)
    ELSE previous_values_loop(
            [st EXCEPT !.cols = df_setitem(@, column_name \o "-" \o ToString(n)),
                       !.cont = Append(@, column_name \o "-" \o ToString(n))],
            column_name, n + 1, number)

proc_add_previous_values(st, column_name, number) ==
    previous_values_loop(st, column_name, 1, number)

\* a mutant of proc_add_percent_change: the new name is put at the head of the list
proc_add_percent_change_head(st, column_name) ==
    IF ~HasCol(st, column_name) THEN Raise(st)
    ELSE [st EXCEPT !.cols = df_setitem(@, column_name \o "-pct"),
                    !.cont = <<column_name \o "-pct">> \o @]

proc_add_percent_change(st, column_name) ==
    IF ~HasCol(st, column_name) THEN Raise(st)
    ELSE [st EXCEPT !.cols = df_setitem(@, column_name \o "-pct"),
                    !.cont = Append(@, column_name \o "-pct")]

proc_add_abs_percent_change(st, column_name) ==
    IF ~HasCol(st, column_name) THEN Raise(st)
    ELSE [st EXCEPT !.cols = df_setitem(@, column_name \o "-abs-pct"),
                    !.cont = Append(@, column_name \o "-abs-pct")]

\* a mutant of proc_add_direction: the precursor is derived on every call
proc_add_direction_always_derives(st, column_name) ==
    LET s1 == proc_add_percent_change(st, column_name)
    IN  IF ~s1.ok THEN s1
        ELSE [s1 EXCEPT !.cols = df_setitem(@, column_name \o "-direction"),
                        !.cat = Append(@, column_name \o "-direction")]

\* columns and metadata of proc_add_direction; the labels are DirectionLabels
proc_add_direction(st, column_name) ==
    LET target == column_name \o "-pct"
        s1 == IF ~HasCol(st, target)
              THEN proc_add_percent_change(st, column_name)
              ELSE st
    IN  IF ~s1.ok THEN s1
        ELSE [s1 EXCEPT !.cols = df_setitem(@, column_name \o "-direction"),
                        !.cat = Append(@, column_name \o "-direction")]

\* the estimator is fed df[column_name].shift(n) for n in range(nr_days)
proc_add_volatility(st, column_name, nr_days) ==
    IF nr_days > 0 /\ ~HasCol(st, column_name) THEN Raise(st)
    ELSE [st EXCEPT !.cols = df_setitem(@, column_name \o "-volatility"),
                    !.cont = Append(@, column_name \o "-volatility")]

OHLC == <<"Open", "High", "Low", "Close">>

\* for c_name in ohcl: tbl[c_name + "_" + col_name + "_Diff"] = tbl[c_name] - tbl[col_name]
RECURSIVE ohlc_diff_loop(_, _, _)
ohlc_diff_loop(st, names, col_name) ==
    IF names = <<>> THEN st
    ELSE IF ~HasCol(st, Head(names)) \/ ~HasCol(st, col_name) THEN Raise(st)
    ELSE ohlc_diff_loop(
            [st EXCEPT !.cols = df_setitem(@, Head(names) \o "_" \o col_name \o "_Diff"),
                       !.cont = Append(@, Head(names) \o "_" \o col_name \o "_Diff")],
            Tail(names), col_name)

proc_add_ohlc_avg(st, add_diff, diff_col, add_ohlc_diff) ==
    LET col_name == "ohlc_avg" IN
    IF ~(Range(OHLC) \subseteq Range(st.cols)) THEN Raise(st)
    ELSE
      LET s1 == [st EXCEPT !.cols = df_setitem(@, col_name), !.cont = Append(@, col_name)]
      IN  IF add_diff
          THEN IF ~HasCol(s1, diff_col) THEN Raise(s1)
               ELSE [s1 EXCEPT !.cols = df_setitem(@, diff_col \o "_" \o col_name \o "_Diff"),
                               !.cont = Append(@, diff_col \o "_" \o col_name \o "_Diff")]
          ELSE IF add_ohlc_diff
          THEN ohlc_diff_loop(s1, OHLC, col_name)
          ELSE s1

(***************************************************************************)
(* Transforms that fetch an indicator table and merge it on "Date".  The   *)
(* merged frame is a new object: when the call raises after the merge, the *)
(* caller's table is as it was, but the names already appended stay in the *)
(* caller's list.                                                          *)
(***************************************************************************)
\* the fetched table with "date" renamed and converted
indicator_table(indicator, raw) ==
    LET data == get_cached_tech_indicator(indicator, raw)
    IN  convert_date([data EXCEPT !.cols = rename_column(@, "date", "Date")])

\* df_merge = pd.merge(df, data, on="Date") as the caller's new table
merged(st, data) ==
    [st EXCEPT !.cols = merge_cols(st.cols, data.cols),
               !.dates = merge_dates(st.dates, data.dates)]

\* if change: df_merge[chg] = df_merge[col].pct_change(); cont_vars.append(chg)
add_change(st, m, change, col, chg) ==
    IF ~change THEN m
    ELSE IF ~HasCol(m, col) THEN Raise(st)
    ELSE [m EXCEPT !.cols = df_setitem(@, chg), !.cont = Append(@, chg)]

\* the shape shared by proc_add_adx, proc_add_obv and proc_add_rsi
append_then_merge(st, raw, change, col, chg) ==
    LET s0 == fetch(st, col)
        data == indicator_table(col, raw)
        s1 == [s0 EXCEPT !.cont = Append(@, col)]
    IN  IF fetch_fails(raw) THEN Raise(s0)
        ELSE IF ~HasCol(s1, "Date") THEN Raise(s1)
        ELSE add_change(s1, merged(s1, data), change, col, chg)

proc_add_adx(st, raw, change) == append_then_merge(st, raw, change, "ADX", "ADX_CHANGE")

proc_add_obv(st, raw, change) == append_then_merge(st, raw, change, "OBV", "OBV_CHANGE")

proc_add_rsi(st, raw, change) == append_then_merge(st, raw, change, "RSI", "RSI_CHANGE")

\* proc_add_mom merges first and registers "MOM" after the merge
proc_add_mom(st, raw, change) ==
    LET s0 == fetch(st, "MOM")
        data == indicator_table("MOM", raw)
    IN  IF fetch_fails(raw) \/ ~HasCol(s0, "Date") THEN Raise(s0)
        ELSE LET s1 == [s0 EXCEPT !.cont = Append(@, "MOM")]
                 m == [merged(s0, data) EXCEPT !.cont = s1.cont]
             IN  add_change(s1, m, change, "MOM", "MOM-pct")

\* for col in macd_columns: df_merge[col + "_Change"] = ...; cont_vars.append(...)
RECURSIVE macd_change_loop(_, _, _)
macd_change_loop(st, m, names) ==
    IF names = <<>> THEN m
    ELSE IF ~HasCol(m, Head(names)) THEN [Raise(st) EXCEPT !.cont = m.cont]
    ELSE macd_change_loop(st,
            [m EXCEPT !.cols = df_setitem(@, Head(names) \o "_Change"),
                      !.cont = Append(@, Head(names) \o "_Change")],
            Tail(names))

proc_add_macd(st, raw) ==
    LET s0 == fetch(st, "MACD")
        data == indicator_table("MACD", raw)
        s1 == [s0 EXCEPT !.cont = @ \o <<"MACD", "MACD_Signal", "MACD_Hist">>]
    IN  IF fetch_fails(raw) THEN Raise(s0)
        ELSE IF ~HasCol(s1, "Date") THEN Raise(s1)
        ELSE LET m == merged(s1, data)
             IN  IF ~HasCol(m, "MACD") \/ ~HasCol(m, "MACD_Signal") THEN Raise(s1)
                 ELSE macd_change_loop(s1,
                        [m EXCEPT !.cols = df_setitem(@, "MACD_SIGN_DIFF"),
                                  !.cont = Append(@, "MACD_SIGN_DIFF")],
                        Filter(data.cols, Range(data.cols) \ {"Date"}))

\* the list after __update_meta_data(var, column_names); the function returns None
update_meta_data(var, column_names) ==
    IF "Date" \in Range(column_names) THEN var ELSE var \o column_names

\* cont_vars = __update_meta_data(...) rebinds the local name to None, so the
\* first cont_vars.append of either diff branch raises AttributeError
proc_add_bband(st, raw, add_diff_to_bb, diff_col, add_ohlc_diff) ==
    LET s0 == fetch(st, "BBANDS")
        bb_data == indicator_table("BBANDS", raw)
        data == [bb_data EXCEPT !.cols =
                    rename_column(rename_column(rename_column(@,
                        "Real Upper Band", "BB_UP"),
                        "Real Middle Band", "BB_MID"),
                        "Real Lower Band", "BB_LOW")]
        s1 == [s0 EXCEPT !.cont = update_meta_data(@, data.cols)]
    IN  IF fetch_fails(raw) THEN Raise(s0)
        ELSE IF ~HasCol(s1, "Date") THEN Raise(s1)
        ELSE IF add_diff_to_bb \/ add_ohlc_diff THEN Raise(s1)
        ELSE merged(s1, data)

\* the indicator __load_moving_avg asks the cache for
load_moving_avg_indicator(mov_avg) ==
    IF mov_avg = "sma" THEN "SMA"
    ELSE IF mov_avg = "ema" THEN "EMA"
    ELSE IF mov_avg = "wma" THEN "WMA"
    ELSE "SMA"

load_moving_avg(mov_avg, raw) ==
    convert_date(get_cached_tech_indicator(load_moving_avg_indicator(mov_avg), raw))

\* a mutant of proc_add_mov_avg_diffs: both diff modes are honored when both flags are set
proc_add_mov_avg_diffs_both(s, m, col_name, add_diff, diff_col, add_ohlc_diff) ==
    LET d == IF add_diff
             THEN IF ~HasCol(m, diff_col) \/ ~HasCol(m, col_name) THEN Raise(s)
                  ELSE [m EXCEPT !.cols = df_setitem(@, diff_col \o "_" \o col_name \o "_Diff"),
                                 !.cont = Append(@, diff_col \o "_" \o col_name \o "_Diff")]
             ELSE m
    IN  IF ~d.ok THEN d
        ELSE IF add_ohlc_diff
        THEN LET r == ohlc_diff_loop(d, OHLC, col_name)
             IN  IF r.ok THEN r ELSE [Raise(s) EXCEPT !.cont = r.cont]
        ELSE d

\* lines 822-847: if add_diff / elif add_ohlc_diff / else, on the merged frame m
proc_add_mov_avg_diffs(s, m, col_name, add_diff, diff_col, add_ohlc_diff) ==
    IF add_diff
    THEN IF ~HasCol(m, diff_col) \/ ~HasCol(m, col_name) THEN Raise(s)
         ELSE [m EXCEPT !.cols = df_setitem(@, diff_col \o "_" \o col_name \o "_Diff"),
                        !.cont = Append(@, diff_col \o "_" \o col_name \o "_Diff")]
    ELSE IF add_ohlc_diff
    THEN LET r == ohlc_diff_loop(m, OHLC, col_name)
         IN  IF r.ok THEN r ELSE [Raise(s) EXCEPT !.cont = r.cont]
    ELSE m

proc_add_mov_avg(st, raw, mov_avg, time_period, add_diff, diff_col, add_ohlc_diff) ==
    LET s0 == fetch(st, load_moving_avg_indicator(mov_avg) \o "_" \o ToString(time_period))
        loaded == load_moving_avg(mov_avg, raw)
        col_name == upper(mov_avg) \o "_" \o ToString(time_period)
        chg_name == col_name \o "_CHANGE"
        renamed == rename_column(rename_column(loaded.cols, "date", "Date"),
                                 upper(mov_avg), col_name)
        s1 == [s0 EXCEPT !.cont = Append(@, col_name)]
    IN  IF fetch_fails(raw) THEN Raise(s0)
        ELSE IF col_name \notin Range(renamed) THEN Raise(s1)
        ELSE LET ma_data == [loaded EXCEPT !.cols = df_setitem(renamed, chg_name)]
                 s2 == [s1 EXCEPT !.cont = Append(@, chg_name)]
             IN  IF ~HasCol(s2, "Date") THEN Raise(s2)
                 ELSE proc_add_mov_avg_diffs(s2, merged(s2, ma_data), col_name,
                                             add_diff, diff_col, add_ohlc_diff)

(***************************************************************************)
(* The moving averages of fixed kind and period, and the composite         *)
(* transforms that difference two of them.  A composite reads the column   *)
(* list of the table it is given once, builds each dependency that list    *)
(* lacks, and then assigns the difference column on the table it holds.    *)
(***************************************************************************)
proc_add_wma5(st, raw, add_diff, diff_col, add_ohlc_diff) ==
    proc_add_mov_avg(st, raw, "wma", 5, add_diff, diff_col, add_ohlc_diff)

proc_add_wma20(st, raw, add_diff, diff_col, add_ohlc_diff) ==
    proc_add_mov_avg(st, raw, "wma", 20, add_diff, diff_col, add_ohlc_diff)

proc_add_wma60(st, raw, add_diff, diff_col, add_ohlc_diff) ==
    proc_add_mov_avg(st, raw, "wma", 60, add_diff, diff_col, add_ohlc_diff)

proc_add_ema10(st, raw, add_diff, diff_col, add_ohlc_diff) ==
    proc_add_mov_avg(st, raw, "ema", 10, add_diff, diff_col, add_ohlc_diff)

proc_add_ema30(st, raw, add_diff, diff_col, add_ohlc_diff) ==
    proc_add_mov_avg(st, raw, "ema", 30, add_diff, diff_col, add_ohlc_diff)

proc_add_sma20(st, raw, add_diff, diff_col, add_ohlc_diff) ==
    proc_add_mov_avg(st, raw, "sma", 20, add_diff, diff_col, add_ohlc_diff)

proc_add_sma200(st, raw, add_diff, diff_col, add_ohlc_diff) ==
    proc_add_mov_avg(st, raw, "sma", 200, add_diff, diff_col, add_ohlc_diff)

\* a mutant of lazy_build: the dependency is built whether or not the table has it
lazy_build_always(st, cur, columns, name, built) ==
    IF ~cur.ok THEN cur
    ELSE IF built.ok THEN built
    ELSE [Raise(st) EXCEPT !.cont = built.cont, !.fetched = built.fetched]

\* if name not in columns: df = proc_add_...(df=df, ...), where built is the
\* outcome of that call on cur, the table the composite holds, and st the
\* caller's table, which a raising build leaves as it was
lazy_build(st, cur, columns, name, built) ==
    IF ~cur.ok \/ name \in Range(columns) THEN cur
    ELSE IF built.ok THEN built
    ELSE [Raise(st) EXCEPT !.cont = built.cont, !.fetched = built.fetched]

\* df[res_name] = df[a] - df[b]; cont_vars.append(res_name); return df
add_diff_column(st, cur, a, b, res_name) ==
    IF ~cur.ok THEN cur
    ELSE IF ~HasCol(cur, a) \/ ~HasCol(cur, b)
    THEN [Raise(st) EXCEPT !.cont = cur.cont, !.fetched = cur.fetched]
    ELSE [cur EXCEPT !.cols = df_setitem(@, res_name), !.cont = Append(@, res_name)]

proc_add_wma5_wma_20_diff(st, raw, raw2, add_diff, add_ohlc_diff) ==
    LET columns == st.cols
        d1 == lazy_build(st, st, columns, "WMA_5",
                         proc_add_wma5(st, raw, add_diff, "Close", add_ohlc_diff))
        d2 == lazy_build(st, d1, columns, "WMA_20",
                         proc_add_wma20(d1, raw2, add_diff, "Close", add_ohlc_diff))
    IN  add_diff_column(st, d2, "WMA_5", "WMA_20", "WMA_5_EMA_20_Diff")

proc_add_wma20_wma_60_diff(st, raw, raw2, add_diff, add_ohlc_diff) ==
    LET columns == st.cols
        d1 == lazy_build(st, st, columns, "WMA_20",
                         proc_add_wma20(st, raw, add_diff, "Close", add_ohlc_diff))
        d2 == lazy_build(st, d1, columns, "WMA_60",
                         proc_add_wma60(d1, raw2, add_diff, "Close", add_ohlc_diff))
    IN  add_diff_column(st, d2, "WMA_20", "WMA_60", "WMA_20_EMA_60_Diff")

proc_add_ema10_ema_30_diff(st, raw, raw2, add_diff, add_ohlc_diff) ==
    LET columns == st.cols
        d1 == lazy_build(st, st, columns, "EMA_10",
                         proc_add_ema10(st, raw, add_diff, "Close", add_ohlc_diff))
        d2 == lazy_build(st, d1, columns, "EMA_30",
                         proc_add_ema30(d1, raw2, add_diff, "Close", add_ohlc_diff))
    IN  add_diff_column(st, d2, "EMA_10", "EMA_30", "EMA_10_EMA_30_Diff")

proc_add_sma20_sma_200_diff(st, raw, raw2, add_ohlc_diff) ==
    LET columns == st.cols
        d1 == lazy_build(st, st, columns, "SMA_20",
                         proc_add_sma20(st, raw, FALSE, "Close", add_ohlc_diff))
        d2 == lazy_build(st, d1, columns, "SMA_200",
                         proc_add_sma200(d1, raw2, FALSE, "Close", add_ohlc_diff))
    IN  add_diff_column(st, d2, "SMA_20", "SMA_200", "SMA_200_SMA_20_Diff")

(***************************************************************************)
(* Cell values of proc_add_direction.  A cell is a number or NaN; every    *)
(* comparison with NaN is false.  Series values are integers and a         *)
(* quantile at k percent is carried times 100, which keeps the linear      *)
(* interpolation of Series.quantile exact.                                 *)
(***************************************************************************)
NaN == [nan |-> TRUE, v |-> 0]

Num(x) == [nan |-> FALSE, v |-> x]

Lt(a, b) == ~a.nan /\ ~b.nan /\ a.v < b.v

Gt(a, b) == Lt(b, a)

\* the cell's value on the scale of the quantiles
Times100(c) == [c EXCEPT !.v = 100 * @]

RECURSIVE Insert(_, _)
Insert(x, s) ==
    IF s = <<>> THEN <<x>>
    ELSE IF x <= Head(s) THEN <<x>> \o s
    ELSE <<Head(s)>> \o Insert(x, Tail(s))

\* the non-missing values of a series, ascending
RECURSIVE SortedValues(_)
SortedValues(series) ==
    IF series = <<>> THEN <<>>
    ELSE IF Head(series).nan THEN SortedValues(Tail(series))
    ELSE Insert(Head(series).v, SortedValues(Tail(series)))

\* series.quantile(k / 100), times 100; NaN for a series without values
quantile(series, k) ==
    LET xs == SortedValues(series)
        n == Len(xs)
    IN  IF n = 0 THEN NaN
        ELSE LET lo == (k * (n - 1)) \div 100
                 r == (k * (n - 1)) % 100
             IN  IF r = 0 THEN Num(100 * xs[lo + 1])
                 ELSE Num(100 * xs[lo + 1] + r * (xs[lo + 2] - xs[lo + 1]))

\* df[target].loc[df[target] > 0] and df[target].loc[df[target] < 0]
RECURSIVE Positive(_)
Positive(series) ==
    IF series = <<>> THEN <<>>
    ELSE (IF Gt(Head(series), Num(0)) THEN <<Head(series)>> ELSE <<>>) \o Positive(Tail(series))

RECURSIVE Negative(_)
Negative(series) ==
    IF series = <<>> THEN <<>>
    ELSE (IF Lt(Head(series), Num(0)) THEN <<Head(series)>> ELSE <<>>) \o Negative(Tail(series))

SKYFALL == -7
STRONG_DOWN == -3
DOWN == -1
ZERO == 0
UP == 1
MORE_UP == 3
STRONG_UP == 5
SKY_UP == 7

\* df.loc[(lo < df[target]) & (df[target] < hi), name] = label; an absent bound is open
assign(labels, series, lo, hi, label) ==
    [i \in DOMAIN labels |->
        IF Gt(Times100(series[i]), lo) /\ Lt(Times100(series[i]), hi)
        THEN Num(label) ELSE labels[i]]

assign_below(labels, series, hi, label) ==
    [i \in DOMAIN labels |->
        IF Lt(Times100(series[i]), hi) THEN Num(label) ELSE labels[i]]

assign_above(labels, series, lo, label) ==
    [i \in DOMAIN labels |->
        IF Gt(Times100(series[i]), lo) THEN Num(label) ELSE labels[i]]

min_positive_pct(series, noise) == quantile(Positive(series), noise)

min_negative_pct(series, noise) == quantile(Negative(series), 100 - noise)

\* the <column>-direction column after the eight assignments, noise in percent
DirectionLabels(series, noise) ==
    LET lowest_ten_quantile == quantile(series, 10)
        bottom_quantile == quantile(series, 25)
        top_quantile == quantile(series, 75)
        top_fifteen_quantile == quantile(series, 85)
        top_five_quantile == quantile(series, 95)
        minpos == min_positive_pct(series, noise)
        minneg == min_negative_pct(series, noise)
        l0 == [i \in DOMAIN series |-> NaN]
        l1 == assign_below(l0, series, lowest_ten_quantile, SKYFALL)
        l2 == assign(l1, series, lowest_ten_quantile, bottom_quantile, STRONG_DOWN)
        l3 == assign(l2, series, bottom_quantile, minneg, DOWN)
        l4 == assign(l3, series, minneg, minpos, ZERO)
        l5 == assign(l4, series, minpos, top_quantile, UP)
        l6 == assign(l5, series, top_quantile, top_fifteen_quantile, MORE_UP)
        l7 == assign(l6, series, top_fifteen_quantile, top_five_quantile, STRONG_UP)
    IN  assign_above(l7, series, top_five_quantile, SKY_UP)

(***************************************************************************)
(* Numeric cells.  A cell of a numeric column is a fraction n/d in lowest   *)
(* terms with d > 0, or NaN; arithmetic with NaN gives NaN and every       *)
(* comparison with NaN is false.  Fractions stand for the floats of the    *)
(* program without their rounding.                                         *)
(***************************************************************************)
QNaN == [nan |-> TRUE, n |-> 0, d |-> 1]

abs(x) == IF x < 0 THEN -x ELSE x

RECURSIVE gcd(_, _)
gcd(a, b) == IF b = 0 THEN a ELSE gcd(b, a % b)

\* the fraction n/d, d # 0, in lowest terms
Q(n, d) ==
    LET g == gcd(abs(n), abs(d))
        sgn == IF d < 0 THEN -1 ELSE 1
    IN  [nan |-> FALSE, n |-> sgn * (n \div g), d |-> sgn * (d \div g)]

QInt(x) == [nan |-> FALSE, n |-> x, d |-> 1]

QAdd(a, b) == IF a.nan \/ b.nan THEN QNaN ELSE Q(a.n * b.d + b.n * a.d, a.d * b.d)

QSub(a, b) == IF a.nan \/ b.nan THEN QNaN ELSE Q(a.n * b.d - b.n * a.d, a.d * b.d)

QMul(a, b) == IF a.nan \/ b.nan THEN QNaN ELSE Q(a.n * b.n, a.d * b.d)

\* float division of pandas: 0/0 is NaN (x/0 for x # 0 is an infinity, which
\* no caller in this module produces: a zero range has zero numerators)
QDiv(a, b) ==
    IF a.nan \/ b.nan \/ b.n = 0 THEN QNaN ELSE Q(a.n * b.d, a.d * b.n)

QLt(a, b) == ~a.nan /\ ~b.nan /\ a.n * b.d < b.n * a.d

\* the square root, kept as the value under the root
sqrt(q) == [radicand |-> q]

(***************************************************************************)
(* OnlineVariance (src.procs.OnlineVariance, outside this file): Welford's *)
(* accumulator with one operation, include, and the reads variance and     *)
(* std.                                                                    *)
(***************************************************************************)
OnlineVariance == [count |-> 0, mean |-> QInt(0), sumSquaredDeltas |-> QInt(0)]

\* a mutant of include: the second delta is taken against the old mean
include_old_mean(e, x) ==
    LET count == e.count + 1
        delta == QSub(x, e.mean)
        mean == QAdd(e.mean, QDiv(delta, QInt(count)))
    IN  [count |-> count, mean |-> mean,
         sumSquaredDeltas |-> QAdd(e.sumSquaredDeltas, QMul(delta, delta))]

include(e, x) ==
    LET count == e.count + 1
        delta == QSub(x, e.mean)
        mean == QAdd(e.mean, QDiv(delta, QInt(count)))
        delta2 == QSub(x, mean)
    IN  [count |-> count, mean |-> mean,
         sumSquaredDeltas |-> QAdd(e.sumSquaredDeltas, QMul(delta, delta2))]

variance(e) ==
    IF e.count > 1 THEN QDiv(e.sumSquaredDeltas, QInt(e.count - 1)) ELSE QInt(0)

std(e) == sqrt(variance(e))

(***************************************************************************)
(* Cell values of proc_add_volatility.  The estimator is handed whole      *)
(* columns: Series arithmetic is row by row, so after the first include    *)
(* its mean and its sum are columns and it keeps one running mean and one  *)
(* running sum per row, with the one count shared by the rows.             *)
(***************************************************************************)
\* a mutant of shift: the column comes back as it is, whatever the lag
shift_none(series, n) == series

\* df[column_name].shift(n): row i takes the value of row i - n
shift(series, n) ==
    [i \in DOMAIN series |-> IF i - n >= 1 THEN series[i - n] ELSE QNaN]

\* ov.include(column)
include_series(est, series) == [i \in DOMAIN series |-> include(est[i], series[i])]

\* for n in range(nr_days): ov.include(df[column_name].shift(n))
RECURSIVE volatility_loop(_, _, _, _)
volatility_loop(est, series, n, nr_days) ==
    IF n >= nr_days THEN est
    ELSE volatility_loop(include_series(est, shift(series, n)), series, n + 1, nr_days)

\* df[name] = ov.std: a column is stored row by row, a scalar in every row
volatility_values(series, nr_days) ==
    LET est == volatility_loop([i \in DOMAIN series |-> OnlineVariance], series, 0, nr_days)
    IN  [i \in DOMAIN series |-> std(est[i])]

(***************************************************************************)
(* proc_min_max_normalize on a frame: the column names in frame order and  *)
(* the cells of each column.                                               *)
(***************************************************************************)
\* df.fillna(0) on one column
proc_fill_nan(col) == [i \in DOMAIN col |-> IF col[i].nan THEN QInt(0) ELSE col[i]]

\* col.min() and col.max(); NaN for a column without rows
col_min(col) ==
    IF col = <<>> THEN QNaN
    ELSE col[CHOOSE i \in DOMAIN col : \A j \in DOMAIN col : ~QLt(col[j], col[i])]

col_max(col) ==
    IF col = <<>> THEN QNaN
    ELSE col[CHOOSE i \in DOMAIN col : \A j \in DOMAIN col : ~QLt(col[i], col[j])]

\* ((col - col.min()) / (col.max() - col.min())) * max_scale
min_max(col, max_scale) ==
    [i \in DOMAIN col |->
        QMul(QDiv(QSub(col[i], col_min(col)), QSub(col_max(col), col_min(col))),
             QInt(max_scale))]

\* the frame returned; a name of exclude_col that is no column raises KeyError
proc_min_max_normalize(frame, max_scale, all_col, exclude_col) ==
    LET df == [frame EXCEPT !.cells = [c \in DOMAIN @ |-> proc_fill_nan(@[c])]]
    IN  IF all_col
        THEN [df EXCEPT !.cells = [c \in DOMAIN @ |-> min_max(@[c], max_scale)]]
        ELSE IF ~(Range(exclude_col) \subseteq Range(df.cols)) THEN Raise(df)
        ELSE [df EXCEPT
                !.cols = exclude_col \o df_drop(@, Range(exclude_col)),
                !.cells = [c \in DOMAIN @ |->
                        IF c \in Range(exclude_col) THEN @[c] ELSE min_max(@[c], max_scale)]]

(***************************************************************************)
(* Calls.  The caller passes its table and its two lists, and binds the    *)
(* returned table; a call that raises leaves the caller's table object as  *)
(* the function left it.                                                   *)
(***************************************************************************)
St ==
    [cols |-> df_cols, dates |-> df_dates, cont |-> cont_vars, cat |-> cat_vars,
     fetched |-> <<>>, ok |-> TRUE]

NoArgs ==
    [column |-> "", number |-> 0, change |-> FALSE, mov_avg |-> "", time_period |-> 0,
     add_diff |-> FALSE, diff_col |-> "", add_ohlc_diff |-> FALSE, noise |-> 0, raw |-> {},
     raw2 |-> {}, all_col |-> TRUE, exclude_col |-> <<>>]

Call(op, args, res) ==
    /\ df_cols' = res.cols
    /\ df_dates' = res.dates
    /\ cont_vars' = res.cont
    /\ cat_vars' = res.cat
    /\ hist' = Append(hist, [op |-> op, args |-> args, ok |-> res.ok,
                             fetched |-> res.fetched,
                             cols |-> df_cols, dates |-> df_dates,
                             cont |-> cont_vars, cat |-> cat_vars])

CallCloseOnly ==
    /\ Call("proc_close_only", NoArgs, proc_close_only(St))
    /\ UNCHANGED <<pct, direction, values, volatility, norm, ov, fed>>

CallDatepart ==
    /\ Call("proc_add_datepart", NoArgs, proc_add_datepart(St))
    /\ UNCHANGED <<pct, direction, values, volatility, norm, ov, fed>>

CallNextY(y_column) ==
    /\ Call("proc_add_next_y", [NoArgs EXCEPT !.column = y_column],
            proc_add_next_y(St, y_column))
    /\ UNCHANGED <<pct, direction, values, volatility, norm, ov, fed>>

CallPreviousValues(column_name, number) ==
    /\ Call("proc_add_previous_values",
            [NoArgs EXCEPT !.column = column_name, !.number = number],
            proc_add_previous_values(St, column_name, number))
    /\ UNCHANGED <<pct, direction, values, volatility, norm, ov, fed>>

CallPercentChange(column_name) ==
    /\ Call("proc_add_percent_change", [NoArgs EXCEPT !.column = column_name],
            proc_add_percent_change(St, column_name))
    /\ UNCHANGED <<pct, direction, values, volatility, norm, ov, fed>>

CallAbsPercentChange(column_name) ==
    /\ Call("proc_add_abs_percent_change", [NoArgs EXCEPT !.column = column_name],
            proc_add_abs_percent_change(St, column_name))
    /\ UNCHANGED <<pct, direction, values, volatility, norm, ov, fed>>

CallDirection(column_name, noise) ==
    LET res == proc_add_direction(St, column_name)
    IN  /\ Call("proc_add_direction",
                [NoArgs EXCEPT !.column = column_name, !.noise = noise], res)
        /\ direction' = IF res.ok THEN DirectionLabels(pct, noise) ELSE direction
        /\ UNCHANGED <<pct, values, volatility, norm, ov, fed>>

CallVolatility(column_name, nr_days) ==
    LET res == proc_add_volatility(St, column_name, nr_days)
    IN  /\ Call("proc_add_volatility",
                [NoArgs EXCEPT !.column = column_name, !.number = nr_days], res)
        /\ volatility' = IF res.ok THEN volatility_values(values[column_name], nr_days)
                                   ELSE volatility
        /\ UNCHANGED <<pct, direction, values, norm, ov, fed>>

\* the table as the frame handed to proc_min_max_normalize
Frame == [cols |-> df_cols, cells |-> values, ok |-> TRUE]

\* the caller keeps its table and takes the returned frame as norm
CallMinMaxNormalize(max_scale, all_col, exclude_col) ==
    LET res == proc_min_max_normalize(Frame, max_scale, all_col, exclude_col)
    IN  /\ Call("proc_min_max_normalize",
                [NoArgs EXCEPT !.number = max_scale, !.all_col = all_col,
                               !.exclude_col = exclude_col],
                [St EXCEPT !.ok = res.ok])
        /\ norm' = IF res.ok THEN res ELSE norm
        /\ UNCHANGED <<pct, direction, values, volatility, ov, fed>>

\* ov.include(x) by a caller that holds the estimator
Include(x) ==
    /\ ov' = include(ov, QInt(x))
    /\ fed' = Append(fed, x)
    /\ UNCHANGED <<df_cols, df_dates, cont_vars, cat_vars, hist, pct, direction,
                   values, volatility, norm>>

CallOhlcAvg(add_diff, diff_col, add_ohlc_diff) ==
    /\ Call("proc_add_ohlc_avg",
            [NoArgs EXCEPT !.add_diff = add_diff, !.diff_col = diff_col,
                           !.add_ohlc_diff = add_ohlc_diff],
            proc_add_ohlc_avg(St, add_diff, diff_col, add_ohlc_diff))
    /\ UNCHANGED <<pct, direction, values, volatility, norm, ov, fed>>

CallAdx(raw, change) ==
    /\ Call("proc_add_adx", [NoArgs EXCEPT !.raw = raw, !.change = change],
            proc_add_adx(St, raw, change))
    /\ UNCHANGED <<pct, direction, values, volatility, norm, ov, fed>>

CallObv(raw, change) ==
    /\ Call("proc_add_obv", [NoArgs EXCEPT !.raw = raw, !.change = change],
            proc_add_obv(St, raw, change))
    /\ UNCHANGED <<pct, direction, values, volatility, norm, ov, fed>>

CallMom(raw, change) ==
    /\ Call("proc_add_mom", [NoArgs EXCEPT !.raw = raw, !.change = change],
            proc_add_mom(St, raw, change))
    /\ UNCHANGED <<pct, direction, values, volatility, norm, ov, fed>>

CallRsi(raw, change) ==
    /\ Call("proc_add_rsi", [NoArgs EXCEPT !.raw = raw, !.change = change],
            proc_add_rsi(St, raw, change))
    /\ UNCHANGED <<pct, direction, values, volatility, norm, ov, fed>>

CallMacd(raw) ==
    /\ Call("proc_add_macd", [NoArgs EXCEPT !.raw = raw], proc_add_macd(St, raw))
    /\ UNCHANGED <<pct, direction, values, volatility, norm, ov, fed>>

CallBband(raw, add_diff_to_bb, diff_col, add_ohlc_diff) ==
    /\ Call("proc_add_bband",
            [NoArgs EXCEPT !.raw = raw, !.add_diff = add_diff_to_bb,
                           !.diff_col = diff_col, !.add_ohlc_diff = add_ohlc_diff],
            proc_add_bband(St, raw, add_diff_to_bb, diff_col, add_ohlc_diff))
    /\ UNCHANGED <<pct, direction, values, volatility, norm, ov, fed>>

CallMovAvg(raw, mov_avg, time_period, add_diff, diff_col, add_ohlc_diff) ==
    /\ Call("proc_add_mov_avg",
            [NoArgs EXCEPT !.raw = raw, !.mov_avg = mov_avg, !.time_period = time_period,
                           !.add_diff = add_diff, !.diff_col = diff_col,
                           !.add_ohlc_diff = add_ohlc_diff],
            proc_add_mov_avg(St, raw, mov_avg, time_period, add_diff, diff_col, add_ohlc_diff))
    /\ UNCHANGED <<pct, direction, values, volatility, norm, ov, fed>>

CallWma5(raw, add_diff, diff_col, add_ohlc_diff) ==
    /\ Call("proc_add_wma5",
            [NoArgs EXCEPT !.raw = raw, !.add_diff = add_diff, !.diff_col = diff_col,
                           !.add_ohlc_diff = add_ohlc_diff],
            proc_add_wma5(St, raw, add_diff, diff_col, add_ohlc_diff))
    /\ UNCHANGED <<pct, direction, values, volatility, norm, ov, fed>>

CallWma20(raw, add_diff, diff_col, add_ohlc_diff) ==
    /\ Call("proc_add_wma20",
            [NoArgs EXCEPT !.raw = raw, !.add_diff = add_diff, !.diff_col = diff_col,
                           !.add_ohlc_diff = add_ohlc_diff],
            proc_add_wma20(St, raw, add_diff, diff_col, add_ohlc_diff))
    /\ UNCHANGED <<pct, direction, values, volatility, norm, ov, fed>>

CallWma60(raw, add_diff, diff_col, add_ohlc_diff) ==
    /\ Call("proc_add_wma60",
            [NoArgs EXCEPT !.raw = raw, !.add_diff = add_diff, !.diff_col = diff_col,
                           !.add_ohlc_diff = add_ohlc_diff],
            proc_add_wma60(St, raw, add_diff, diff_col, add_ohlc_diff))
    /\ UNCHANGED <<pct, direction, values, volatility, norm, ov, fed>>

CallEma10(raw, add_diff, diff_col, add_ohlc_diff) ==
    /\ Call("proc_add_ema10",
            [NoArgs EXCEPT !.raw = raw, !.add_diff = add_diff, !.diff_col = diff_col,
                           !.add_ohlc_diff = add_ohlc_diff],
            proc_add_ema10(St, raw, add_diff, diff_col, add_ohlc_diff))
    /\ UNCHANGED <<pct, direction, values, volatility, norm, ov, fed>>

CallEma30(raw, add_diff, diff_col, add_ohlc_diff) ==
    /\ Call("proc_add_ema30",
            [NoArgs EXCEPT !.raw = raw, !.add_diff = add_diff, !.diff_col = diff_col,
                           !.add_ohlc_diff = add_ohlc_diff],
            proc_add_ema30(St, raw, add_diff, diff_col, add_ohlc_diff))
    /\ UNCHANGED <<pct, direction, values, volatility, norm, ov, fed>>

CallSma20(raw, add_diff, diff_col, add_ohlc_diff) ==
    /\ Call("proc_add_sma20",
            [NoArgs EXCEPT !.raw = raw, !.add_diff = add_diff, !.diff_col = diff_col,
                           !.add_ohlc_diff = add_ohlc_diff],
            proc_add_sma20(St, raw, add_diff, diff_col, add_ohlc_diff))
    /\ UNCHANGED <<pct, direction, values, volatility, norm, ov, fed>>

CallSma200(raw, add_diff, diff_col, add_ohlc_diff) ==
    /\ Call("proc_add_sma200",
            [NoArgs EXCEPT !.raw = raw, !.add_diff = add_diff, !.diff_col = diff_col,
                           !.add_ohlc_diff = add_ohlc_diff],
            proc_add_sma200(St, raw, add_diff, diff_col, add_ohlc_diff))
    /\ UNCHANGED <<pct, direction, values, volatility, norm, ov, fed>>

\* raw and raw2 are the cache's responses to a request for the first and for
\* the second dependency
CallWma5Wma20Diff(raw, raw2, add_diff, add_ohlc_diff) ==
    /\ Call("proc_add_wma5_wma_20_diff",
            [NoArgs EXCEPT !.raw = raw, !.raw2 = raw2, !.add_diff = add_diff,
                           !.add_ohlc_diff = add_ohlc_diff],
            proc_add_wma5_wma_20_diff(St, raw, raw2, add_diff, add_ohlc_diff))
    /\ UNCHANGED <<pct, direction, values, volatility, norm, ov, fed>>

CallWma20Wma60Diff(raw, raw2, add_diff, add_ohlc_diff) ==
    /\ Call("proc_add_wma20_wma_60_diff",
            [NoArgs EXCEPT !.raw = raw, !.raw2 = raw2, !.add_diff = add_diff,
                           !.add_ohlc_diff = add_ohlc_diff],
            proc_add_wma20_wma_60_diff(St, raw, raw2, add_diff, add_ohlc_diff))
    /\ UNCHANGED <<pct, direction, values, volatility, norm, ov, fed>>

CallEma10Ema30Diff(raw, raw2, add_diff, add_ohlc_diff) ==
    /\ Call("proc_add_ema10_ema_30_diff",
            [NoArgs EXCEPT !.raw = raw, !.raw2 = raw2, !.add_diff = add_diff,
                           !.add_ohlc_diff = add_ohlc_diff],
            proc_add_ema10_ema_30_diff(St, raw, raw2, add_diff, add_ohlc_diff))
    /\ UNCHANGED <<pct, direction, values, volatility, norm, ov, fed>>

CallSma20Sma200Diff(raw, raw2, add_ohlc_diff) ==
    /\ Call("proc_add_sma20_sma_200_diff",
            [NoArgs EXCEPT !.raw = raw, !.raw2 = raw2, !.add_ohlc_diff = add_ohlc_diff],
            proc_add_sma20_sma_200_diff(St, raw, raw2, add_ohlc_diff))
    /\ UNCHANGED <<pct, direction, values, volatility, norm, ov, fed>>

(***************************************************************************)
(* Inputs of the calls.                                                    *)
(***************************************************************************)
BaseColumns == <<"Date", "Open", "High", "Low", "Close", "Volume">>

Columns == {"Close", "Open"}

Numbers == {1, 2}

MovAvgKinds == {"sma", "ema", "wma", "xyz"}

TimePeriods == {20, 200}

MergeKinds == {"sma", "xyz"}

DefaultTimePeriod == 20

DefaultDiffCol == "Close"

DefaultNoise == 7

NoiseThresholds == {7, 50, 90}

\* the series of the pipeline runs: the first pct-change row is missing
SamplePct == <<NaN, Num(-1), Num(1)>>

\* the prices of the pipeline runs, one row per trading date
SampleValues ==
    [c \in Columns |-> [d \in Dates |-> QInt(IF c = "Close" THEN d * d ELSE d)]]

\* no frame has been returned yet
NoFrame == [cols |-> <<>>, cells |-> <<>>, ok |-> TRUE]

\* the state of the variables a specification does not work on
NoVolatility == volatility = <<>>

NoNorm == norm = NoFrame

NoEstimator == ov = OnlineVariance /\ fed = <<>>

(***************************************************************************)
(* Spec: a pipeline run of up to MaxCalls calls on the base price table;   *)
(* the cache holds every trading date of the table.                        *)
(***************************************************************************)
Init ==
    /\ df_cols = BaseColumns
    /\ df_dates = Dates
    /\ cont_vars = <<>>
    /\ cat_vars = <<>>
    /\ hist = <<>>
    /\ pct = SamplePct
    /\ direction = <<>>
    /\ values = SampleValues
    /\ NoVolatility /\ NoNorm /\ NoEstimator

\* the run has calls left
More(max_calls) == Len(hist) < max_calls

Next ==
    \/ More(MaxCalls) /\ CallCloseOnly
    \/ More(MaxCalls) /\ CallDatepart
    \/ More(MaxCalls) /\ \E c \in Columns :
           CallNextY(c)
    \/ More(MaxCalls) /\ \E c \in Columns, n \in Numbers :
           CallPreviousValues(c, n)
    \/ More(MaxCalls) /\ \E c \in Columns :
           CallPercentChange(c)
    \/ More(MaxCalls) /\ \E c \in Columns :
           CallAbsPercentChange(c)
    \/ More(MaxCalls) /\ \E c \in Columns :
           CallDirection(c, DefaultNoise)
    \/ More(MaxCalls) /\ \E c \in Columns :
           CallVolatility(c, 2)
    \/ More(MaxCalls) /\ \E d, o \in BOOLEAN :
           CallOhlcAvg(d, DefaultDiffCol, o)
    \/ More(MaxCalls) /\ \E ch \in BOOLEAN :
           CallAdx(DateStrings, ch)
    \/ More(MaxCalls) /\ \E ch \in BOOLEAN :
           CallObv(DateStrings, ch)
    \/ More(MaxCalls) /\ \E ch \in BOOLEAN :
           CallMom(DateStrings, ch)
    \/ More(MaxCalls) /\ \E ch \in BOOLEAN :
           CallRsi(DateStrings, ch)
    \/ More(MaxCalls) /\ CallMacd(DateStrings)
    \/ More(MaxCalls) /\ \E d, o \in BOOLEAN :
           CallBband(DateStrings, d, DefaultDiffCol, o)
    \/ More(MaxCalls) /\ \E k \in MovAvgKinds, t \in TimePeriods, d, o \in BOOLEAN :
           CallMovAvg(DateStrings, k, t, d, DefaultDiffCol, o)

Spec == Init /\ [][Next]_vars

(***************************************************************************)
(* SpecMerge: the merge transforms on price and indicator tables with      *)
(* arbitrary date sets.                                                    *)
(***************************************************************************)
InitMerge ==
    /\ df_cols = BaseColumns
    /\ df_dates \in SUBSET Dates
    /\ cont_vars = <<>>
    /\ cat_vars = <<>>
    /\ hist = <<>>
    /\ pct = SamplePct
    /\ direction = <<>>
    /\ values = SampleValues
    /\ NoVolatility /\ NoNorm /\ NoEstimator

NextMerge ==
    \/ More(MaxMergeCalls) /\ \E raw \in SUBSET DateStrings, ch \in BOOLEAN :
           CallAdx(raw, ch)
    \/ More(MaxMergeCalls) /\ \E raw \in SUBSET DateStrings, ch \in BOOLEAN :
           CallObv(raw, ch)
    \/ More(MaxMergeCalls) /\ \E raw \in SUBSET DateStrings, ch \in BOOLEAN :
           CallMom(raw, ch)
    \/ More(MaxMergeCalls) /\ \E raw \in SUBSET DateStrings, ch \in BOOLEAN :
           CallRsi(raw, ch)
    \/ More(MaxMergeCalls) /\ \E raw \in SUBSET DateStrings :
           CallMacd(raw)
    \/ More(MaxMergeCalls) /\ \E raw \in SUBSET DateStrings, d, o \in BOOLEAN :
           CallBband(raw, d, DefaultDiffCol, o)
    \/ More(MaxMergeCalls) /\ \E raw \in SUBSET DateStrings, k \in MergeKinds, d, o \in BOOLEAN :
           CallMovAvg(raw, k, DefaultTimePeriod, d, DefaultDiffCol, o)

SpecMerge == InitMerge /\ [][NextMerge]_vars

(***************************************************************************)
(* SpecDiff: the composite difference transforms and the moving averages   *)
(* they depend on, against a cache that may hold only part of the dates or *)
(* fail to supply a table.                                                 *)
(***************************************************************************)
\* the cache lacks the first trading date
Partial == DateStrings \ {"d1"}

\* responses to a request for the first and for the second dependency
CachePairs ==
    {<<DateStrings, DateStrings>>, <<Partial, DateStrings>>,
     <<DateStrings, Unavailable>>, <<Unavailable, DateStrings>>}

CacheResponses == {DateStrings, Unavailable}

NextDiff ==
    \/ More(MaxDiffCalls) /\ \E r \in CachePairs, d, o \in BOOLEAN :
           CallWma5Wma20Diff(r[1], r[2], d, o)
    \/ More(MaxDiffCalls) /\ \E r \in CachePairs, d, o \in BOOLEAN :
           CallWma20Wma60Diff(r[1], r[2], d, o)
    \/ More(MaxDiffCalls) /\ \E r \in CachePairs, d, o \in BOOLEAN :
           CallEma10Ema30Diff(r[1], r[2], d, o)
    \/ More(MaxDiffCalls) /\ \E r \in CachePairs, o \in BOOLEAN :
           CallSma20Sma200Diff(r[1], r[2], o)
    \/ More(MaxDiffCalls) /\ \E raw \in CacheResponses :
           CallWma5(raw, FALSE, DefaultDiffCol, FALSE)
    \/ More(MaxDiffCalls) /\ \E raw \in CacheResponses :
           CallWma20(raw, FALSE, DefaultDiffCol, FALSE)
    \/ More(MaxDiffCalls) /\ \E raw \in CacheResponses :
           CallWma60(raw, FALSE, DefaultDiffCol, FALSE)
    \/ More(MaxDiffCalls) /\ \E raw \in CacheResponses :
           CallEma10(raw, FALSE, DefaultDiffCol, FALSE)
    \/ More(MaxDiffCalls) /\ \E raw \in CacheResponses :
           CallEma30(raw, FALSE, DefaultDiffCol, FALSE)
    \/ More(MaxDiffCalls) /\ \E raw \in CacheResponses :
           CallSma20(raw, FALSE, DefaultDiffCol, FALSE)
    \/ More(MaxDiffCalls) /\ \E raw \in CacheResponses :
           CallSma200(raw, FALSE, DefaultDiffCol, FALSE)
    \/ More(MaxDiffCalls) /\ CallCloseOnly

SpecDiff == Init /\ [][NextDiff]_vars

(***************************************************************************)
(* SpecDir: the direction classifier on a table that already carries the   *)
(* Close-pct column.  Labelling is row-wise and the quantiles sort the     *)
(* series, so the rows after the missing first one are taken in ascending  *)
(* order of value.                                                         *)
(***************************************************************************)
PctValues == {-2, -1, 0, 1, 2}

\* the ascending sequences of n values drawn from vals
RECURSIVE NonDecreasing(_, _)
NonDecreasing(n, vals) ==
    IF n = 0 THEN {<<>>}
    ELSE UNION {{<<v>> \o s : s \in NonDecreasing(n - 1, {w \in vals : w >= v})} : v \in vals}

\* the series of up to max_rows values after the missing first row
PctSeries(max_rows) ==
    {<<NaN>> \o [i \in DOMAIN s |-> Num(s[i])] :
        s \in UNION {NonDecreasing(n, PctValues) : n \in 0..max_rows}}

InitDir ==
    /\ pct \in PctSeries(MaxRows)
    /\ df_cols = Append(BaseColumns, "Close-pct")
    /\ df_dates = 1..Len(pct)
    /\ cont_vars = <<"Close-pct">>
    /\ cat_vars = <<>>
    /\ hist = <<>>
    /\ direction = <<>>
    /\ values = SampleValues
    /\ NoVolatility /\ NoNorm /\ NoEstimator

NextDir ==
    More(MaxDirCalls) /\ \E noise \in NoiseThresholds : CallDirection("Close", noise)

SpecDir == InitDir /\ [][NextDir]_vars

(***************************************************************************)
(* SpecOv: a caller feeds one estimator value by value.                    *)
(***************************************************************************)
FedValues == 0..MaxValue

InitOv ==
    /\ df_cols = BaseColumns
    /\ df_dates = Dates
    /\ cont_vars = <<>>
    /\ cat_vars = <<>>
    /\ hist = <<>>
    /\ pct = SamplePct
    /\ direction = <<>>
    /\ values = SampleValues
    /\ NoVolatility /\ NoNorm /\ NoEstimator

NextOv == Len(fed) < MaxFed /\ \E x \in FedValues : Include(x)

SpecOv == InitOv /\ [][NextOv]_vars

(***************************************************************************)
(* SpecVol: proc_add_volatility on the values of a price column.           *)
(***************************************************************************)
Prices == {1, 2, 4}

\* the columns of n rows with cells from vals
ColumnsOf(n, vals) == [1..n -> vals]

InitVol ==
    /\ \E n \in 0..MaxVolRows :
          /\ values \in {[c \in {"Close"} |-> col] :
                            col \in ColumnsOf(n, {QInt(x) : x \in Prices})}
          /\ df_dates = 1..n
    /\ df_cols = BaseColumns
    /\ cont_vars = <<>>
    /\ cat_vars = <<>>
    /\ hist = <<>>
    /\ pct = SamplePct
    /\ direction = <<>>
    /\ NoVolatility /\ NoNorm /\ NoEstimator

NextVol ==
    More(MaxVolCalls) /\ \E nr_days \in 0..MaxWindow : CallVolatility("Close", nr_days)

SpecVol == InitVol /\ [][NextVol]_vars

(***************************************************************************)
(* SpecNorm: proc_min_max_normalize on a table of a Date column and two    *)
(* numeric columns, in any column order, with cells that may be missing.   *)
(***************************************************************************)
ColumnOrders ==
    {<<"Date", "Close", "Volume">>, <<"Close", "Date", "Volume">>,
     <<"Close", "Volume", "Date">>}

CloseCells == {QNaN, QInt(0), QInt(1), QInt(3)}

VolumeCells == {QInt(2), QInt(5)}

DefaultMaxScale == 100

InitNorm ==
    /\ df_cols \in ColumnOrders
    /\ \E n \in 1..MaxNormRows :
          /\ df_dates = 1..n
          /\ values \in {[c \in {"Date", "Close", "Volume"} |->
                                IF c = "Date" THEN [d \in 1..n |-> QInt(d)]
                                ELSE IF c = "Close" THEN close ELSE volume] :
                            close \in ColumnsOf(n, CloseCells),
                            volume \in ColumnsOf(n, VolumeCells)}
    /\ cont_vars = <<>>
    /\ cat_vars = <<>>
    /\ hist = <<>>
    /\ pct = SamplePct
    /\ direction = <<>>
    /\ NoVolatility /\ NoNorm /\ NoEstimator

NextNorm ==
    More(MaxNormCalls) /\ \E all_col \in BOOLEAN :
        CallMinMaxNormalize(DefaultMaxScale, all_col, <<"Date">>)

SpecNorm == InitNorm /\ [][NextNorm]_vars

(***************************************************************************)
(* SpecOrder: runs of calls against one cache, which answers a request the *)
(* same way whenever it is made: the ADX table lacks the first trading     *)
(* date, the OBV table the second, every other table holds all dates.      *)
(***************************************************************************)
SampleCache(request) ==
    CASE request = "ADX" -> DateStrings \ {"d1"}
      [] request = "OBV" -> DateStrings \ {"d2"}
      [] OTHER -> DateStrings

NextOrder ==
    \/ More(MaxOrderCalls) /\ CallCloseOnly
    \/ More(MaxOrderCalls) /\ \E c \in Columns :
           CallNextY(c)
    \/ More(MaxOrderCalls) /\ \E c \in Columns :
           CallPercentChange(c)
    \/ More(MaxOrderCalls) /\ \E c \in Columns :
           CallDirection(c, DefaultNoise)
    \/ More(MaxOrderCalls) /\ \E d, o \in BOOLEAN :
           CallOhlcAvg(d, DefaultDiffCol, o)
    \/ More(MaxOrderCalls) /\ \E ch \in BOOLEAN :
           CallAdx(SampleCache("ADX"), ch)
    \/ More(MaxOrderCalls) /\ \E ch \in BOOLEAN :
           CallObv(SampleCache("OBV"), ch)
    \/ More(MaxOrderCalls) /\ CallMacd(SampleCache("MACD"))
    \/ More(MaxOrderCalls) /\
           CallSma20(SampleCache("SMA_20"), FALSE, DefaultDiffCol, FALSE)
    \/ More(MaxOrderCalls) /\
           CallSma200(SampleCache("SMA_200"), FALSE, DefaultDiffCol, FALSE)
    \/ More(MaxOrderCalls) /\ \E o \in BOOLEAN :
           CallSma20Sma200Diff(SampleCache("SMA_20"), SampleCache("SMA_200"), o)
    \/ More(MaxOrderCalls) /\ \E d, o \in BOOLEAN :
           CallWma5Wma20Diff(SampleCache("WMA_5"), SampleCache("WMA_20"), d, o)

SpecOrder == Init /\ [][NextOrder]_vars

(***************************************************************************)
(* Properties.                                                             *)
(***************************************************************************)
Called == hist # <<>>

Last == hist[Len(hist)]

\* names the last call appended to each list
LastCont == Suffix(Last.cont, cont_vars)

LastCat == Suffix(Last.cat, cat_vars)

MergeOps ==
    {"proc_add_adx", "proc_add_obv", "proc_add_mom", "proc_add_rsi",
     "proc_add_macd", "proc_add_bband", "proc_add_mov_avg"}

C3Transforms == {"proc_add_percent_change", "proc_add_adx", "proc_add_mov_avg"}

\* C3: when the same transform (here one of those the claim is drawn from)
\* is called twice in succession with the same arguments, the second call
\* appends the names the first call appended.
C3_SecondCallAppendsSame ==
    (/\ Len(hist) >= 2
     /\ Last.op \in C3Transforms
     /\ hist[Len(hist) - 1].op = Last.op
     /\ hist[Len(hist) - 1].args = Last.args
     /\ hist[Len(hist) - 1].ok)
    => /\ LastCont = Suffix(hist[Len(hist) - 1].cont, Last.cont)
       /\ LastCat = Suffix(hist[Len(hist) - 1].cat, Last.cat)

\* C4: after proc_add_bband the continuous list has gained BB_UP, BB_MID and
\* BB_LOW, and not "Date".
C4_BbandRegistersBands ==
    (Called /\ Last.op = "proc_add_bband" /\ Last.ok) =>
        /\ {"BB_UP", "BB_MID", "BB_LOW"} \subseteq Range(LastCont)
        /\ "Date" \notin Range(LastCont)

Classified == Called /\ Last.op = "proc_add_direction" /\ Last.ok

\* C6: every row whose pct value is strictly below the 10th percentile of
\* the series is labelled SKYFALL (-7) in the final direction column.
C6_BelowTenthIsSkyfall ==
    Classified =>
        \A i \in DOMAIN pct :
            Lt(Times100(pct[i]), quantile(pct, 10)) => direction[i] = Num(SKYFALL)

\* C7: every row whose pct value lies strictly inside the noise band is
\* labelled ZERO (0) in the final direction column.
C7_NoiseBandIsZero ==
    Classified =>
        \A i \in DOMAIN pct :
            (/\ Gt(Times100(pct[i]), min_negative_pct(pct, Last.args.noise))
             /\ Lt(Times100(pct[i]), min_positive_pct(pct, Last.args.noise)))
            => direction[i] = Num(ZERO)

DirectionCallsOnly(c) ==
    \A i \in DOMAIN hist : hist[i].op = "proc_add_direction" /\ hist[i].args.column = c

\* C8: a direction call on a table that has the price column returns; it
\* appends <col>-pct to the continuous list exactly when the table lacked
\* that column, and <col>-direction to the categorical list once.  A run of
\* direction calls for one column on the base table registers <col>-pct
\* once and <col>-direction once per call.
C8_DirectionSelfHeals ==
    /\ (Called /\ Last.op = "proc_add_direction" /\ Last.args.column \in Range(Last.cols)) =>
          /\ Last.ok
          /\ LastCont = IF (Last.args.column \o "-pct") \in Range(Last.cols)
                        THEN <<>> ELSE <<Last.args.column \o "-pct">>
          /\ LastCat = <<Last.args.column \o "-direction">>
          /\ {Last.args.column \o "-pct", Last.args.column \o "-direction"}
                \subseteq Range(df_cols)
    /\ \A c \in Columns :
          (Called /\ DirectionCallsOnly(c)) =>
              /\ Count(c \o "-pct", cont_vars) = 1
              /\ Count(c \o "-direction", cat_vars) = Len(hist)

\* a second direction call for Close found the column the first call derived
C8_Witness ==
    /\ Len(hist) >= 2 /\ DirectionCallsOnly("Close")
    /\ "Close-pct" \in Range(Last.cols)
    /\ LastCont = <<>>

\* the last call built a moving average on a table without that average
MovAvgCalled ==
    /\ Called /\ Last.op = "proc_add_mov_avg"
    /\ "Date" \in Range(Last.cols)
    /\ (upper(Last.args.mov_avg) \o "_" \o ToString(Last.args.time_period))
            \notin Range(Last.cols)

\* C9: proc_add_mov_avg with a kind outside {sma, ema, wma} does not fail
\* and returns the merged table with the moving-average column and its
\* percentage-change column.
C9_UnknownKindFallsBack ==
    (MovAvgCalled /\ Last.args.mov_avg \notin {"sma", "ema", "wma"}) =>
        /\ Last.ok
        /\ Len(df_cols) = Len(Last.cols) + 2

LastColName == upper(Last.args.mov_avg) \o "_" \o ToString(Last.args.time_period)

\* names proc_add_mov_avg is to register for the flags of the last call
ExpectedMovAvgNames ==
    <<LastColName, LastColName \o "_CHANGE">> \o
    (IF Last.args.add_diff
     THEN <<Last.args.diff_col \o "_" \o LastColName \o "_Diff">>
     ELSE IF Last.args.add_ohlc_diff
     THEN [i \in DOMAIN OHLC |-> OHLC[i] \o "_" \o LastColName \o "_Diff"]
     ELSE <<>>)

\* C10: proc_add_mov_avg with a kind of {sma, ema, wma}, on a table that has
\* the price columns and not yet this moving average, returns; it registers
\* the average and its _CHANGE column, then one <diffCol> diff when add_diff
\* is set (also when add_ohlc_diff is set too), the four OHLC diffs when
\* only add_ohlc_diff is set, and nothing more otherwise: 3, 6 and 2 names.
\* The returned table holds the input columns and the registered ones.
C10_OneDiffMode ==
    (/\ MovAvgCalled
     /\ Last.args.mov_avg \in {"sma", "ema", "wma"}
     /\ Range(OHLC) \subseteq Range(Last.cols)) =>
        /\ Last.ok
        /\ LastCont = ExpectedMovAvgNames
        /\ Len(LastCont) = (IF Last.args.add_diff THEN 3
                            ELSE IF Last.args.add_ohlc_diff THEN 6 ELSE 2)
        /\ Range(df_cols) = Range(Last.cols) \cup Range(ExpectedMovAvgNames)

\* both flags were set and only the single diff column was added
C10_Witness ==
    /\ MovAvgCalled /\ Last.ok
    /\ Last.args.add_diff /\ Last.args.add_ohlc_diff
    /\ Len(LastCont) = 3
    /\ "Open_SMA_20_Diff" \notin Range(df_cols)
    /\ "Close_SMA_20_Diff" \in Range(df_cols)

DiffOps ==
    {"proc_add_wma5_wma_20_diff", "proc_add_wma20_wma_60_diff",
     "proc_add_ema10_ema_30_diff", "proc_add_sma20_sma_200_diff"}

\* the two dependency columns of a composite, in the order it looks for them
Deps(op) ==
    CASE op = "proc_add_wma5_wma_20_diff" -> <<"WMA_5", "WMA_20">>
      [] op = "proc_add_wma20_wma_60_diff" -> <<"WMA_20", "WMA_60">>
      [] op = "proc_add_ema10_ema_30_diff" -> <<"EMA_10", "EMA_30">>
      [] op = "proc_add_sma20_sma_200_diff" -> <<"SMA_20", "SMA_200">>

\* the difference column of a composite
ResName(op) ==
    CASE op = "proc_add_wma5_wma_20_diff" -> "WMA_5_EMA_20_Diff"
      [] op = "proc_add_wma20_wma_60_diff" -> "WMA_20_EMA_60_Diff"
      [] op = "proc_add_ema10_ema_30_diff" -> "EMA_10_EMA_30_Diff"
      [] op = "proc_add_sma20_sma_200_diff" -> "SMA_200_SMA_20_Diff"

\* dependencies the table of the last call lacked
AbsentDeps == Filter(Deps(Last.op), Range(Deps(Last.op)) \ Range(Last.cols))

\* names one dependency build registers for the flags of the last call
NamesPerBuild ==
    2 + (IF Last.args.add_diff THEN 1 ELSE IF Last.args.add_ohlc_diff THEN 4 ELSE 0)

\* the table of the last call has what the builds read, and the cache
\* supplies each dependency the table lacks
CanBuild ==
    /\ {"Date", "Close"} \subseteq Range(Last.cols)
    /\ Last.args.add_ohlc_diff => Range(OHLC) \subseteq Range(Last.cols)
    /\ Deps(Last.op)[1] \notin Range(Last.cols) => ~fetch_fails(Last.args.raw)
    /\ Deps(Last.op)[2] \notin Range(Last.cols) => ~fetch_fails(Last.args.raw2)

\* C11: a composite difference transform returns when its table has the
\* columns the builds read and the cache supplies the dependencies the
\* table lacks, also on a second invocation.  When it returns it has sent
\* the cache one request for each dependency column its input table lacked,
\* in order, and none for a column the table had; the returned table holds
\* both dependencies and the difference column, and the continuous list has
\* gained the names of the builds and then the difference name, once.  When
\* the table had both dependencies nothing is fetched, the dates are those
\* of the input table, the only column that may be new is the difference
\* column and the one name appended is its name.
C11_LazyDependencies ==
    /\ (Called /\ Last.op \in DiffOps /\ CanBuild) => Last.ok
    /\ (Called /\ Last.op \in DiffOps /\ Last.ok) =>
        /\ Last.fetched = AbsentDeps
        /\ Range(Deps(Last.op)) \cup {ResName(Last.op)} \subseteq Range(df_cols)
        /\ Count(ResName(Last.op), df_cols) = 1
        /\ Count(ResName(Last.op), LastCont) = 1
        /\ LastCont[Len(LastCont)] = ResName(Last.op)
        /\ Len(LastCont) = 1 + Len(AbsentDeps) * NamesPerBuild
        /\ AbsentDeps = <<>> =>
              /\ df_dates = Last.dates
              /\ Range(df_cols) = Range(Last.cols) \cup {ResName(Last.op)}
              /\ LastCont = <<ResName(Last.op)>>

\* the second invocation of a composite, on the table its first invocation
\* returned after the merge had dropped a date: nothing fetched, one name
C11_Witness ==
    /\ Len(hist) = 2 /\ Last.op \in DiffOps /\ Last.ok
    /\ hist[1].op = Last.op /\ hist[1].ok
    /\ Len(hist[1].fetched) = 2 /\ Last.fetched = <<>>
    /\ Last.dates # Dates /\ df_dates = Last.dates
    /\ Len(cont_vars) = Len(Last.cont) + 1

\* the sum of a sequence of cells
RECURSIVE QSum(_)
QSum(xs) == IF xs = <<>> THEN QInt(0) ELSE QAdd(Head(xs), QSum(Tail(xs)))

\* the closed form: the squared deviations from the mean, summed and
\* divided by the count less one
SampleVariance(xs) ==
    LET mean == QDiv(QSum(xs), QInt(Len(xs)))
        dev == [i \in DOMAIN xs |-> QMul(QSub(xs[i], mean), QSub(xs[i], mean))]
    IN  QDiv(QSum(dev), QInt(Len(xs) - 1))

\* the last call was a volatility call that returned; its column and window
VolatilityAdded == Called /\ Last.op = "proc_add_volatility" /\ Last.ok

VolColumn == values[Last.args.column]

\* the cells of rows i-N+1 .. i of the column, for a row i >= N
Window(i) == SubSeq(VolColumn, i - Last.args.number + 1, i)

FedCells == [i \in DOMAIN fed |-> QInt(fed[i])]

\* C13: after any sequence of include calls the variance is the closed-form
\* sample variance of the included values when there are at least two, and
\* 0 when there are fewer; it is 0 for a constant sequence and 5/2 for
\* 1, 2, 3, 4, 5.
C13_WelfordIsSampleVariance ==
    /\ ov.count = Len(fed)
    /\ Len(fed) >= 2 => variance(ov) = SampleVariance(FedCells)
    /\ Len(fed) < 2 => variance(ov) = QInt(0)
    /\ (\A i, j \in DOMAIN fed : fed[i] = fed[j]) => variance(ov) = QInt(0)
    /\ fed = <<1, 2, 3, 4, 5>> => variance(ov) = Q(5, 2)

\* 1, 2, 3, 4, 5 have been included
C13_Witness ==
    /\ fed = <<1, 2, 3, 4, 5>>
    /\ ov.count = 5 /\ variance(ov) = Q(5, 2)

\* the last call normalized the table with "Date" excluded, and returned
NormalizedWithoutDate ==
    /\ Called /\ Last.op = "proc_min_max_normalize" /\ Last.ok
    /\ ~Last.args.all_col /\ Last.args.exclude_col = <<"Date">>

\* C14: in the frame min-max normalization returns for max_scale = 100 and
\* "Date" excluded, every other column has 0 in the rows that held the
\* column's minimum and 100 in the rows that held its maximum (missing
\* cells counted as the 0 they are filled with), and "Date" is the first
\* column, with the values it had.
C14_MinToZeroMaxToScale ==
    NormalizedWithoutDate =>
        /\ norm.cols[1] = "Date"
        /\ Range(norm.cols) = Range(Last.cols)
        /\ norm.cells["Date"] = values["Date"]
        /\ \A c \in Range(Last.cols) \ {"Date"} :
              LET col == proc_fill_nan(values[c])
              IN  \A i \in DOMAIN col :
                    /\ col[i] = col_min(col) => norm.cells[c][i] = QInt(0)
                    /\ col[i] = col_max(col) => norm.cells[c][i] = QInt(Last.args.number)

\* C15: when a call has failed, both metadata lists are as they were before
\* the call.
C15_FailureLeavesMetadata ==
    (Called /\ ~Last.ok) => (cont_vars = Last.cont /\ cat_vars = Last.cat)

\* every call made so far has returned
AllReturned == \A i \in DOMAIN hist : hist[i].ok

\* C16: after calls that all returned, every name in either metadata list
\* is a column of the current table.
C16_MetadataNamesAreColumns ==
    (Called /\ AllReturned) =>
        Range(cont_vars) \cup Range(cat_vars) \subseteq Range(df_cols)

\* the call recorded as h, made on the state st
Apply(h, st) ==
    LET a == h.args IN
    CASE h.op = "proc_close_only" -> proc_close_only(st)
      [] h.op = "proc_add_datepart" -> proc_add_datepart(st)
      [] h.op = "proc_add_next_y" -> proc_add_next_y(st, a.column)
      [] h.op = "proc_add_previous_values" -> proc_add_previous_values(st, a.column, a.number)
      [] h.op = "proc_add_percent_change" -> proc_add_percent_change(st, a.column)
      [] h.op = "proc_add_abs_percent_change" -> proc_add_abs_percent_change(st, a.column)
      [] h.op = "proc_add_direction" -> proc_add_direction(st, a.column)
      [] h.op = "proc_add_volatility" -> proc_add_volatility(st, a.column, a.number)
      [] h.op = "proc_add_ohlc_avg" ->
            proc_add_ohlc_avg(st, a.add_diff, a.diff_col, a.add_ohlc_diff)
      [] h.op = "proc_add_adx" -> proc_add_adx(st, a.raw, a.change)
      [] h.op = "proc_add_obv" -> proc_add_obv(st, a.raw, a.change)
      [] h.op = "proc_add_mom" -> proc_add_mom(st, a.raw, a.change)
      [] h.op = "proc_add_rsi" -> proc_add_rsi(st, a.raw, a.change)
      [] h.op = "proc_add_macd" -> proc_add_macd(st, a.raw)
      [] h.op = "proc_add_bband" ->
            proc_add_bband(st, a.raw, a.add_diff, a.diff_col, a.add_ohlc_diff)
      [] h.op = "proc_add_mov_avg" ->
            proc_add_mov_avg(st, a.raw, a.mov_avg, a.time_period,
                             a.add_diff, a.diff_col, a.add_ohlc_diff)
      [] h.op = "proc_add_wma5" ->
            proc_add_wma5(st, a.raw, a.add_diff, a.diff_col, a.add_ohlc_diff)
      [] h.op = "proc_add_wma20" ->
            proc_add_wma20(st, a.raw, a.add_diff, a.diff_col, a.add_ohlc_diff)
      [] h.op = "proc_add_wma60" ->
            proc_add_wma60(st, a.raw, a.add_diff, a.diff_col, a.add_ohlc_diff)
      [] h.op = "proc_add_ema10" ->
            proc_add_ema10(st, a.raw, a.add_diff, a.diff_col, a.add_ohlc_diff)
      [] h.op = "proc_add_ema30" ->
            proc_add_ema30(st, a.raw, a.add_diff, a.diff_col, a.add_ohlc_diff)
      [] h.op = "proc_add_sma20" ->
            proc_add_sma20(st, a.raw, a.add_diff, a.diff_col, a.add_ohlc_diff)
      [] h.op = "proc_add_sma200" ->
            proc_add_sma200(st, a.raw, a.add_diff, a.diff_col, a.add_ohlc_diff)
      [] h.op = "proc_add_wma5_wma_20_diff" ->
            proc_add_wma5_wma_20_diff(st, a.raw, a.raw2, a.add_diff, a.add_ohlc_diff)
      [] h.op = "proc_add_wma20_wma_60_diff" ->
            proc_add_wma20_wma_60_diff(st, a.raw, a.raw2, a.add_diff, a.add_ohlc_diff)
      [] h.op = "proc_add_ema10_ema_30_diff" ->
            proc_add_ema10_ema_30_diff(st, a.raw, a.raw2, a.add_diff, a.add_ohlc_diff)
      [] h.op = "proc_add_sma20_sma_200_diff" ->
            proc_add_sma20_sma_200_diff(st, a.raw, a.raw2, a.add_ohlc_diff)

\* the state in which the first call of the run was made
FirstState ==
    [cols |-> hist[1].cols, dates |-> hist[1].dates, cont |-> hist[1].cont,
     cat |-> hist[1].cat, fetched |-> <<>>, ok |-> TRUE]

\* the two calls of the run made in the other order on the same table; a
\* caller whose first call raises does not make the second
Swapped ==
    LET first == Apply(hist[2], FirstState)
    IN  IF first.ok THEN Apply(hist[1], [first EXCEPT !.fetched = <<>>]) ELSE first

\* the same names with the same multiplicities
SameBag(s, t) == \A x \in Range(s) \cup Range(t) : Count(x, s) = Count(x, t)

\* the other order returns the same dates, the same column names and the
\* same registered names
SwappedAgrees ==
    /\ Swapped.ok
    /\ Swapped.dates = df_dates
    /\ Range(Swapped.cols) = Range(df_cols)
    /\ SameBag(Swapped.cont, cont_vars)
    /\ SameBag(Swapped.cat, cat_vars)

\* the names a call adds to the table or registers when made first
Produced(h) ==
    LET r == Apply(h, FirstState)
    IN  (Range(r.cols) \ Range(FirstState.cols))
        \cup Range(Suffix(FirstState.cont, r.cont))
        \cup Range(Suffix(FirstState.cat, r.cat))

\* C17 as stated: two transforms applied to the base table, whenever both
\* orders return a table, give in the other order the same dates, the same
\* column names and the same registered names with the same multiplicities.
C17_OrderIndependent ==
    (Len(hist) = 2 /\ AllReturned /\ Swapped.ok) => SwappedAgrees

\* C17 amended: two transforms applied to the base table that return in
\* both orders and that add or register no name in common give, in either
\* order, the same dates, the same column names and the same registered
\* names with the same multiplicities.
C17_IndependentPairsCommute ==
    (/\ Len(hist) = 2 /\ AllReturned
     /\ Swapped.ok
     /\ Produced(hist[1]) \cap Produced(hist[2]) = {}) => SwappedAgrees

\* two different indicator merges, each of which dropped a date the other
\* kept, have been applied and agree with the other order
C17_Witness ==
    /\ Len(hist) = 2 /\ AllReturned
    /\ hist[1].op \in MergeOps /\ hist[2].op \in MergeOps /\ hist[1].op # hist[2].op
    /\ Swapped.ok /\ Produced(hist[1]) \cap Produced(hist[2]) = {}
    /\ hist[2].dates # Dates /\ df_dates # hist[2].dates /\ df_dates # {}
    /\ SwappedAgrees

DirectionLabelSet == {SKYFALL, STRONG_DOWN, DOWN, ZERO, UP, MORE_UP, STRONG_UP, SKY_UP}

\* row i passes at least one of the eight strict range tests
MatchesSomeRange(i) ==
    LET x == Times100(pct[i])
        noise == Last.args.noise
        In(lo, hi) == Gt(x, lo) /\ Lt(x, hi)
    IN  \/ Lt(x, quantile(pct, 10))
        \/ In(quantile(pct, 10), quantile(pct, 25))
        \/ In(quantile(pct, 25), min_negative_pct(pct, noise))
        \/ In(min_negative_pct(pct, noise), min_positive_pct(pct, noise))
        \/ In(min_positive_pct(pct, noise), quantile(pct, 75))
        \/ In(quantile(pct, 75), quantile(pct, 85))
        \/ In(quantile(pct, 85), quantile(pct, 95))
        \/ Gt(x, quantile(pct, 95))

\* C18: after proc_add_direction, of two labelled rows the one with the
\* smaller value has the smaller or the same label; every label is one of
\* the eight; and the rows without a label are those whose value is missing
\* or passes none of the eight range tests.
C18_LabelsOrderPreserving ==
    Classified =>
        /\ \A a, b \in DOMAIN pct :
              (~direction[a].nan /\ ~direction[b].nan /\ Lt(pct[a], pct[b]))
                  => direction[a].v <= direction[b].v
        /\ \A i \in DOMAIN pct : ~direction[i].nan => direction[i].v \in DirectionLabelSet
        /\ \A i \in DOMAIN pct : direction[i].nan <=> (pct[i].nan \/ ~MatchesSomeRange(i))

====
